---- MODULE Spec2Model ----
(***************************************************************************)
(* The send/receive/measure loops of the five scripts of the repository:   *)
(*   benchmark_ws_sender.py    handle_client      (script "sender")        *)
(*   benchmark_ws_receiver.py  benchmark_receiver (script "receiver")      *)
(*   test-client.py            test_receive_rate  (script "client")        *)
(*   test-server.py            image_server       (script "server")        *)
(*   test-server-jpeg.py       image_server       (script "jpeg")          *)
(*                                                                         *)
(* Time is counted in ticks, tps of them to a second; now is               *)
(* the value time.time() returns.  The clock never runs backwards, and it  *)
(* may stand still between two reads (a coarse clock).  asyncio.sleep(d)   *)
(* with d > 0 resumes the coroutine exactly d later.                       *)
(*                                                                         *)
(* One process runs one script; a server script serves each connection    *)
(* with a coroutine of its own, a client script holds one connection.      *)
(* The event loop runs one coroutine at a time, from one await to the      *)
(* next.                                                                   *)
(* Fields named h_* and prev_* are history fields: the code has no such    *)
(* variable, they record what has happened so that properties can be       *)
(* stated.                                                                 *)
(***************************************************************************)
EXTENDS Integers, Sequences, FiniteSets

VARIABLES
    script,     \* which script this process runs
    fps,        \* --fps (sender, server, jpeg)
    payloadLen, \* len(payload) of the sender (fixed before serving)
    duration,   \* --duration of the client, in ticks; 0 is None (falsy)
    tps,        \* resolution of the clock of this run: ticks per second
    image_path, \* what --image names in the file system (server)
    images,     \* preloaded_images of load_images (server)
    mode,       \* mode of load_images (server)
    now,        \* time.time()
    sess        \* per connection: the locals of its coroutine

vars ==
    <<script, fps, payloadLen, duration, tps, image_path, images, mode,
      now, sess>>

----------------------------------------------------------------------------
\* Bounds of the model

TicksPerSecond == 2
MaxTime == 5
MaxEvents == 3
MaxLen == 1
NumConns == 2
Epoch == 1
MaxFiles == 2

Conns == 1..NumConns

\* --fps values: negative, 0 (unlimited), and those whose period 1/fps is a
\* whole number of ticks
FpsValues == {-1, 0} \cup {f \in 1..TicksPerSecond : TicksPerSecond % f = 0}

MsgLens == 0..MaxLen

Durations == {0, 1, TicksPerSecond}

Scripts == {"sender", "receiver", "client", "server", "jpeg"}

ServerScripts == {"sender", "server", "jpeg"}

\* What --image can name: nothing (no argument), a path that does not
\* exist, a file, or a directory.  files lists, in sorted order of the
\* names, whether each image file found can be read.
NoPath == [kind |-> "none", files |-> << >>]

Paths ==
    {[kind |-> k, files |-> << >>] : k \in {"none", "missing"}}
        \cup {[kind |-> "file", files |-> <<r>>] : r \in BOOLEAN}
        \cup {[kind |-> "dir", files |-> f] :
                  f \in UNION {[1..n -> BOOLEAN] : n \in 0..MaxFiles}}

----------------------------------------------------------------------------
\* Program constants

\* "if current_time - last_report_time >= 1.0": one second, in ticks
ReportInterval == 1 * tps

BitsPerByte == 8

Mega == 1000000

----------------------------------------------------------------------------
\* Arithmetic of the reports.  A quotient a / b is kept as the pair
\* <<a, b>> (num, den) so that no rounding enters; two quotients are equal
\* when they cross-multiply.

Quot(n, d) == [num |-> n, den |-> d]

Zero == Quot(0, 1)

RatEq(a, b) == a.den # 0 /\ b.den # 0 /\ a.num * b.den = b.num * a.den

\* "(x / elapsed) if elapsed > 0 else 0"
GuardedQuot(n, d) == IF d > 0 THEN Quot(n, d) ELSE Zero

\* 1.0 / fps, in ticks (fps # 0); negative for a negative fps
Period(f) == IF f > 0 THEN tps \div f ELSE 0 - (tps \div (0 - f))

----------------------------------------------------------------------------
\* The locals of one coroutine before its connection exists

NoSession ==
    [ pc               |-> "idle",
      messages         |-> 0,     \* messages / frame_count
      bytes            |-> 0,     \* bytes_sent / bytes_received / total_bytes
      start_time       |-> 0,
      last_report_time |-> 0,
      current_time     |-> 0,
      loop_start       |-> 0,     \* sender: loop_start; image servers: history
      target_interval  |-> 0,     \* sender: target_interval; image servers: delay
      wake_at          |-> 0,     \* when the pending asyncio.sleep returns
      end_time         |-> 0,     \* client
      frame_num        |-> 0,     \* image servers
      image_data       |-> [kind |-> "none", n |-> 0], \* payload being sent
      printed          |-> << >>, \* the periodic reports, in order
      summary          |-> << >>, \* the client's FINAL STATISTICS, if printed
      fault            |-> "none",
      closed           |-> FALSE, \* a send or receive signalled closure/failure
      h_events         |-> 0,     \* units of work since the session started
      h_bytes          |-> 0,     \* bytes recorded since the session started
      h_ev_snap        |-> 0,     \* h_events at the previous report
      h_by_snap        |-> 0,     \* h_bytes at the previous report
      h_win_start      |-> 0,     \* time of the previous report (or of the start)
      h_iters          |-> 0,     \* iterations begun
      h_yields         |-> 0,     \* asyncio.sleep of a non-positive duration
      h_slept          |-> 0,     \* duration of the last asyncio.sleep, 0 if none
      h_busy           |-> 0,     \* time the last finished iteration's work took
      prev_start       |-> 0 ]    \* start of the iteration before this one

\* counters kept in variables of the module, shared by the coroutines
SetShared(c, r) ==
    sess' = [d \in Conns |->
                IF d = c
                THEN r
                ELSE [sess[d] EXCEPT !.messages = r.messages,
                                     !.bytes = r.bytes]]

\* the locals of coroutine c become r; no other coroutine has them
Set(c, r) == sess' = [sess EXCEPT ![c] = r]

Globals ==
    <<script, fps, payloadLen, duration, tps, image_path, images, mode>>

\* positions between two awaits
SyncPcs == {"report", "pace", "final"}

\* the event loop runs coroutine c: no other coroutine is between two awaits
Turn(c) == \A d \in Conns \ {c} : sess[d].pc \notin SyncPcs

\* a unit of work may still be started (bound of the model)
MayWork(s) == s.h_events < MaxEvents

----------------------------------------------------------------------------
\* The clock

\* a sleeping coroutine is resumed at its wake-up time, not later
SleepDue == \E c \in Conns : sess[c].pc = "sleeping" /\ sess[c].wake_at <= now

Tick ==
    /\ now < Epoch + MaxTime
    /\ ~SleepDue
    /\ now' = now + 1
    /\ UNCHANGED <<Globals, sess>>

----------------------------------------------------------------------------
\* Helpers shared by the loops

\* beginning of an iteration ("loop_start = time.time()" in the sender)
BeginIteration(s) ==
    [s EXCEPT !.pc = "sending",
              !.prev_start = s.loop_start,
              !.loop_start = now,
              !.h_iters = s.h_iters + 1]

\* a record that counts every message as one byte
RecordOneByte(s, len) ==
    [s EXCEPT !.messages = s.messages + 1,
              !.bytes = s.bytes + 1,
              !.current_time = now,
              !.h_events = s.h_events + 1,
              !.h_bytes = s.h_bytes + len]

\* record(byteLength): "messages += 1; bytes += len(message);
\* current_time = time.time()"
Record(s, len) ==
    [s EXCEPT !.messages = s.messages + 1,
              !.bytes = s.bytes + len,
              !.current_time = now,
              !.h_events = s.h_events + 1,
              !.h_bytes = s.h_bytes + len]

\* a check that is late by one comparison: ">" for ">="
DueStrict(s) == s.current_time - s.last_report_time > ReportInterval

\* "if current_time - last_report_time >= 1.0"
Due(s) == s.current_time - s.last_report_time >= ReportInterval

\* A printed report: t, msg_rate, mbps, total are what the code computes;
\* the h_* fields are history, taken when the report is printed.
Snapshot(s, rate, mbps, hasTotal) ==
    [ t           |-> s.current_time,
      msg_rate    |-> rate,
      mbps        |-> mbps,
      has_total   |-> hasTotal,
      total       |-> IF hasTotal THEN s.bytes ELSE 0,
      h_start     |-> s.start_time,
      h_events    |-> s.h_events,
      h_bytes     |-> s.h_bytes,
      h_win_ev    |-> s.h_events - s.h_ev_snap,
      h_win_by    |-> s.h_bytes - s.h_by_snap,
      h_win_start |-> s.h_win_start ]

\* printing a report, and the history of it: where the next window begins
Emit(s, snap) ==
    [s EXCEPT !.printed = Append(s.printed, snap),
              !.h_ev_snap = s.h_events,
              !.h_by_snap = s.h_bytes,
              !.h_win_start = s.current_time]

\* an exception that ends the coroutine
Raise(s, what) == [s EXCEPT !.pc = "stopped", !.fault = what]

----------------------------------------------------------------------------
\* The payloads of the image servers

ImageScripts == {"server", "jpeg"}

\* an opaque payload: the content of file n of the path, the test image
\* generated for frame n, or the one JPEG of test-server-jpeg.py
Payload(kind, n) == [kind |-> kind, n |-> n]

\* test-server.py lines 222-234: the files are read in order, one that
\* cannot be read is skipped
RECURSIVE ReadFiles(_, _, _)
ReadFiles(files, i, acc) ==
    IF i > Len(files)
    THEN acc
    ELSE ReadFiles(files, i + 1,
                   IF files[i] THEN Append(acc, Payload("file", i)) ELSE acc)

\* load_images that stays in directory mode when no file could be read
LoadImagesNoFallback(p) ==
    IF p.kind = "dir" /\ Len(p.files) > 0
    THEN [images |-> ReadFiles(p.files, 1, << >>), mode |-> "directory"]
    ELSE IF p.kind = "file" /\ p.files[1]
    THEN [images |-> <<Payload("file", 1)>>, mode |-> "static"]
    ELSE [images |-> << >>, mode |-> "dynamic"]

\* test-server.py, load_images: (images, mode)
LoadImages(p) ==
    IF p.kind = "none"
    THEN [images |-> << >>, mode |-> "dynamic"]
    ELSE IF p.kind = "dir"
    THEN IF Len(p.files) > 0
         THEN LET read == ReadFiles(p.files, 1, << >>)
              IN  IF Len(read) > 0
                  THEN [images |-> read, mode |-> "directory"]
                  ELSE [images |-> read, mode |-> "dynamic"]
         ELSE [images |-> << >>, mode |-> "dynamic"]
    ELSE IF p.kind = "file"
    THEN IF p.files[1]
         THEN [images |-> <<Payload("file", 1)>>, mode |-> "static"]
         ELSE [images |-> << >>, mode |-> "dynamic"]
    ELSE [images |-> << >>, mode |-> "dynamic"]

\* test-server.py lines 277-283: the payload of this iteration; an
\* IndexError or a ZeroDivisionError is caught at line 305 and breaks the
\* loop.  test-server-jpeg.py sends its one image.
ImageBegin(s) ==
    LET b == BeginIteration(s)
    IN  IF script = "jpeg"
        THEN [b EXCEPT !.image_data = Payload("jpeg", 0)]
        ELSE IF mode = "static"
        THEN IF Len(images) = 0
             THEN Raise(s, "index_error")
             ELSE [b EXCEPT !.image_data = images[1]]
        ELSE IF mode = "directory"
        THEN IF Len(images) = 0
             THEN Raise(s, "mod_zero")
             ELSE [b EXCEPT !.image_data =
                                images[(s.frame_num % Len(images)) + 1]]
        ELSE [b EXCEPT !.image_data = Payload("generated", s.frame_num)]

----------------------------------------------------------------------------
\* benchmark_ws_sender.py, handle_client

handle_client_connect(c) ==
    /\ script = "sender"
    /\ sess[c].pc = "idle"
    /\ Turn(c)
    /\ Set(c, BeginIteration(
           [sess[c] EXCEPT !.target_interval = IF fps > 0 THEN Period(fps) ELSE 0,
                           !.messages = 0,
                           !.bytes = 0,
                           !.start_time = now,
                           !.last_report_time = now,
                           !.h_win_start = now]))
    /\ UNCHANGED <<Globals, now>>

\* lines 64-68: the send completes and is counted
handle_client_send(c) ==
    /\ script = "sender"
    /\ sess[c].pc = "sending"
    /\ Turn(c)
    /\ Set(c, [Record(sess[c], payloadLen) EXCEPT !.pc = "report"])
    /\ UNCHANGED <<Globals, now>>

handle_client_send_ok(c) ==
    /\ MayWork(sess[c])
    /\ handle_client_send(c)

\* a send that fails and is tried again
SendFailedRetry(s) == [s EXCEPT !.closed = TRUE]

\* ConnectionClosed or any other exception leaves the while loop
SendFailed(s) == [s EXCEPT !.pc = "stopped", !.closed = TRUE]

handle_client_send_fail(c) ==
    /\ script = "sender"
    /\ sess[c].pc = "sending"
    /\ Turn(c)
    /\ Set(c, SendFailed(sess[c]))
    /\ UNCHANGED <<Globals, now>>

\* a report whose rates are taken over the time since start_time
SenderReportSinceStart(s) ==
    LET elapsed == s.current_time - s.start_time
    IN  IF Due(s)
        THEN [Emit(s, Snapshot(s,
                  GuardedQuot(s.messages * tps, elapsed),
                  Quot(s.bytes * BitsPerByte * tps, elapsed * Mega),
                  FALSE))
                EXCEPT !.messages = 0,
                       !.bytes = 0,
                       !.last_report_time = s.current_time,
                       !.pc = "pace"]
        ELSE [s EXCEPT !.pc = "pace"]

\* lines 71-80: the report and the reset of the window
SenderReport(s) ==
    LET elapsed == s.current_time - s.last_report_time
    IN  IF Due(s)
        THEN IF elapsed * Mega = 0
             THEN Raise(s, "rate_div0")
             ELSE [Emit(s, Snapshot(s,
                       GuardedQuot(s.messages * tps, elapsed),
                       Quot(s.bytes * BitsPerByte * tps, elapsed * Mega),
                       FALSE))
                     EXCEPT !.messages = 0,
                            !.bytes = 0,
                            !.last_report_time = s.current_time,
                            !.pc = "pace"]
        ELSE [s EXCEPT !.pc = "pace"]

handle_client_report(c) ==
    /\ script = "sender"
    /\ sess[c].pc = "report"
    /\ Turn(c)
    /\ Set(c, SenderReport(sess[c]))
    /\ UNCHANGED <<Globals, now>>

\* a pacing that sleeps the whole period, whatever the iteration took
SenderPaceWholePeriod(s) ==
    LET t == [s EXCEPT !.h_busy = now - s.loop_start]
    IN  IF s.target_interval > 0
        THEN [t EXCEPT !.pc = "sleeping",
                       !.wake_at = now + s.target_interval,
                       !.h_slept = s.target_interval]
        ELSE [t EXCEPT !.pc = "yield", !.h_yields = s.h_yields + 1, !.h_slept = 0]

\* lines 82-90: FPS limiting
SenderPace(s) ==
    LET elapsed_loop == now - s.loop_start
        sleep_time == s.target_interval - elapsed_loop
        t == [s EXCEPT !.h_busy = elapsed_loop]
    IN  IF s.target_interval > 0
        THEN IF sleep_time > 0
             THEN [t EXCEPT !.pc = "sleeping",
                            !.wake_at = now + sleep_time,
                            !.h_slept = sleep_time]
             ELSE [BeginIteration(t) EXCEPT !.h_slept = 0]
        ELSE [t EXCEPT !.pc = "yield", !.h_yields = s.h_yields + 1, !.h_slept = 0]

handle_client_pace(c) ==
    /\ script = "sender"
    /\ sess[c].pc = "pace"
    /\ Turn(c)
    /\ Set(c, SenderPace(sess[c]))
    /\ UNCHANGED <<Globals, now>>

\* the top of the loop: the image servers choose their payload there
NextIteration(s) ==
    IF script \in ImageScripts THEN ImageBegin(s) ELSE BeginIteration(s)

\* asyncio.sleep(d), d > 0, returns; the loop begins its next iteration
Wake(c) ==
    /\ sess[c].pc = "sleeping"
    /\ sess[c].wake_at <= now
    /\ Turn(c)
    /\ Set(c, NextIteration(sess[c]))
    /\ UNCHANGED <<Globals, now>>

\* asyncio.sleep(d), d <= 0, returns: the coroutine only yielded
Resume(c) ==
    /\ sess[c].pc = "yield"
    /\ Turn(c)
    /\ Set(c, NextIteration(sess[c]))
    /\ UNCHANGED <<Globals, now>>

----------------------------------------------------------------------------
\* benchmark_ws_receiver.py, benchmark_receiver

benchmark_receiver_connect(c) ==
    /\ script = "receiver"
    /\ sess[c].pc = "idle"
    /\ Turn(c)
    /\ Set(c, [sess[c] EXCEPT !.pc = "receiving",
                              !.start_time = now,
                              !.last_report_time = now,
                              !.messages = 0,
                              !.bytes = 0,
                              !.h_win_start = now])
    /\ UNCHANGED <<Globals, now>>

benchmark_receiver_recv_ok(c) ==
    /\ script = "receiver"
    /\ sess[c].pc = "receiving"
    /\ Turn(c)
    /\ MayWork(sess[c])
    /\ \E len \in MsgLens :
           Set(c, [Record(sess[c], len) EXCEPT !.pc = "report"])
    /\ UNCHANGED <<Globals, now>>

\* a closure that first prints the window accumulated so far
RecvFailedFlush(s) ==
    [Emit(s, Snapshot(s, Zero, Zero, TRUE))
        EXCEPT !.pc = "stopped", !.closed = TRUE]

\* ConnectionClosed, or any other exception: break
RecvFailed(s) == [s EXCEPT !.pc = "stopped", !.closed = TRUE]

benchmark_receiver_recv_fail(c) ==
    /\ script = "receiver"
    /\ sess[c].pc = "receiving"
    /\ Turn(c)
    /\ Set(c, RecvFailed(sess[c]))
    /\ UNCHANGED <<Globals, now>>

\* a report that forgets to reset bytes_received
ReceiverReportKeepBytes(s) ==
    LET elapsed == s.current_time - s.last_report_time
    IN  IF Due(s)
        THEN [Emit(s, Snapshot(s,
                  GuardedQuot(s.messages * tps, elapsed),
                  Quot(s.bytes * BitsPerByte * tps, elapsed * Mega),
                  TRUE))
                EXCEPT !.messages = 0,
                       !.last_report_time = s.current_time,
                       !.pc = "receiving"]
        ELSE [s EXCEPT !.pc = "receiving"]

\* lines 38-48: the report ("Total:" prints bytes_received) and the reset
ReceiverReport(s) ==
    LET elapsed == s.current_time - s.last_report_time
    IN  IF Due(s)
        THEN IF elapsed * Mega = 0
             THEN Raise(s, "rate_div0")
             ELSE [Emit(s, Snapshot(s,
                       GuardedQuot(s.messages * tps, elapsed),
                       Quot(s.bytes * BitsPerByte * tps, elapsed * Mega),
                       TRUE))
                     EXCEPT !.messages = 0,
                            !.bytes = 0,
                            !.last_report_time = s.current_time,
                            !.pc = "receiving"]
        ELSE [s EXCEPT !.pc = "receiving"]

benchmark_receiver_report(c) ==
    /\ script = "receiver"
    /\ sess[c].pc = "report"
    /\ Turn(c)
    /\ Set(c, ReceiverReport(sess[c]))
    /\ UNCHANGED <<Globals, now>>

----------------------------------------------------------------------------
\* test-client.py, test_receive_rate

test_receive_rate_connect(c) ==
    /\ script = "client"
    /\ sess[c].pc = "idle"
    /\ Turn(c)
    /\ Set(c, [sess[c] EXCEPT !.pc = "receiving",
                              !.end_time = IF duration # 0 THEN now + duration ELSE 0,
                              !.start_time = now,
                              !.last_report_time = now,
                              !.h_win_start = now])
    /\ UNCHANGED <<Globals, now>>

test_receive_rate_recv_ok(c) ==
    /\ script = "client"
    /\ sess[c].pc = "receiving"
    /\ Turn(c)
    /\ MayWork(sess[c])
    /\ \E len \in MsgLens :
           Set(c, [Record(sess[c], len) EXCEPT !.pc = "report"])
    /\ UNCHANGED <<Globals, now>>

\* lines 53-79: the report (frame_count and total_bytes are not reset) and
\* the check of the duration
ClientReport(s) ==
    LET elapsed == s.current_time - s.start_time
        t == IF Due(s)
             THEN [Emit(s, Snapshot(s,
                       GuardedQuot(s.messages * tps, elapsed),
                       GuardedQuot(s.bytes * BitsPerByte * tps, elapsed * Mega),
                       TRUE))
                     EXCEPT !.last_report_time = s.current_time]
             ELSE s
    IN  IF duration # 0 /\ s.current_time >= s.end_time
        THEN [t EXCEPT !.pc = "final"]
        ELSE [t EXCEPT !.pc = "receiving"]

test_receive_rate_report(c) ==
    /\ script = "client"
    /\ sess[c].pc = "report"
    /\ Turn(c)
    /\ Set(c, ClientReport(sess[c]))
    /\ UNCHANGED <<Globals, now>>

\* the connection closes: the iteration ends (normal closure), or
\* ConnectionClosed is caught at line 84; both go on to the final statistics
test_receive_rate_closed(c) ==
    /\ script = "client"
    /\ sess[c].pc = "receiving"
    /\ Turn(c)
    /\ Set(c, [sess[c] EXCEPT !.pc = "final", !.closed = TRUE])
    /\ UNCHANGED <<Globals, now>>

\* any other exception: caught at line 86, which returns
test_receive_rate_error(c) ==
    /\ script = "client"
    /\ sess[c].pc = "receiving"
    /\ Turn(c)
    /\ Set(c, [sess[c] EXCEPT !.pc = "stopped", !.closed = TRUE])
    /\ UNCHANGED <<Globals, now>>

\* lines 92-112: the final statistics
ClientFinal(s) ==
    LET elapsed == now - s.start_time
    IN  IF s.start_time # 0 /\ s.messages > 0
        THEN IF elapsed = 0
             THEN Raise(s, "rate_div0")
             ELSE [s EXCEPT !.pc = "stopped",
                            !.summary = << [ frames  |-> s.messages,
                                             elapsed |-> elapsed,
                                             avg_fps |-> Quot(s.messages * tps, elapsed),
                                             mbps    |-> Quot(s.bytes * BitsPerByte * tps,
                                                              elapsed * Mega),
                                             total   |-> s.bytes ] >>]
        ELSE [s EXCEPT !.pc = "stopped"]

test_receive_rate_final(c) ==
    /\ script = "client"
    /\ sess[c].pc = "final"
    /\ Turn(c)
    /\ Set(c, ClientFinal(sess[c]))
    /\ UNCHANGED <<Globals, now>>

----------------------------------------------------------------------------
\* test-server.py and test-server-jpeg.py, image_server (the two loops are
\* the same but for the choice of the payload)

\* "frame_num += 2" in place of "frame_num += 1"
ImagePaceSkip(s) ==
    LET t == [s EXCEPT !.frame_num = s.frame_num + 2,
                       !.h_events = s.h_events + 1,
                       !.h_busy = now - s.loop_start]
    IN  IF s.target_interval > 0
        THEN [t EXCEPT !.pc = "sleeping",
                       !.wake_at = now + s.target_interval,
                       !.h_slept = s.target_interval]
        ELSE [t EXCEPT !.pc = "yield", !.h_yields = s.h_yields + 1, !.h_slept = 0]

\* "frame_num = 0; delay = 1.0 / fps", outside every try
ImageStart(s) ==
    IF fps = 0
    THEN Raise(s, "delay_div0")
    ELSE ImageBegin([s EXCEPT !.frame_num = 0,
                              !.target_interval = Period(fps),
                              !.start_time = now])

image_server_connect(c) ==
    /\ script \in ImageScripts
    /\ sess[c].pc = "idle"
    /\ Turn(c)
    /\ Set(c, ImageStart(sess[c]))
    /\ UNCHANGED <<Globals, now>>

\* "frame_num += 1; await asyncio.sleep(delay)"
ImagePace(s) ==
    LET t == [s EXCEPT !.frame_num = s.frame_num + 1,
                       !.h_events = s.h_events + 1,
                       !.h_busy = now - s.loop_start]
    IN  IF s.target_interval > 0
        THEN [t EXCEPT !.pc = "sleeping",
                       !.wake_at = now + s.target_interval,
                       !.h_slept = s.target_interval]
        ELSE [t EXCEPT !.pc = "yield", !.h_yields = s.h_yields + 1, !.h_slept = 0]

\* the send completes
image_server_send(c) ==
    /\ script \in ImageScripts
    /\ sess[c].pc = "sending"
    /\ Turn(c)
    /\ Set(c, ImagePace(sess[c]))
    /\ UNCHANGED <<Globals, now>>

image_server_send_ok(c) ==
    /\ MayWork(sess[c])
    /\ image_server_send(c)

\* ConnectionClosed or another exception of the send (or of the making of
\* the payload): break
image_server_send_fail(c) ==
    /\ script \in ImageScripts
    /\ sess[c].pc = "sending"
    /\ Turn(c)
    /\ Set(c, SendFailed(sess[c]))
    /\ UNCHANGED <<Globals, now>>

----------------------------------------------------------------------------
\* One process, one connection

Init ==
    /\ script \in Scripts
    /\ fps \in (IF script \in ServerScripts THEN FpsValues ELSE {0})
    /\ payloadLen \in (IF script = "sender" THEN MsgLens ELSE {0})
    /\ duration \in (IF script = "client" THEN Durations ELSE {0})
    /\ tps = TicksPerSecond
    /\ image_path \in (IF script = "server" THEN Paths ELSE {NoPath})
    /\ images = LoadImages(image_path).images
    /\ mode = LoadImages(image_path).mode
    /\ now = Epoch
    /\ sess = [c \in Conns |-> NoSession]

Step(c) ==
    \/ handle_client_connect(c)
    \/ handle_client_send_ok(c)
    \/ handle_client_send_fail(c)
    \/ handle_client_report(c)
    \/ handle_client_pace(c)
    \/ benchmark_receiver_connect(c)
    \/ benchmark_receiver_recv_ok(c)
    \/ benchmark_receiver_recv_fail(c)
    \/ benchmark_receiver_report(c)
    \/ test_receive_rate_connect(c)
    \/ test_receive_rate_recv_ok(c)
    \/ test_receive_rate_closed(c)
    \/ test_receive_rate_error(c)
    \/ test_receive_rate_report(c)
    \/ test_receive_rate_final(c)
    \/ image_server_connect(c)
    \/ image_server_send_ok(c)
    \/ image_server_send_fail(c)
    \/ Wake(c)
    \/ Resume(c)

Next == Tick \/ Step(1)

Spec == Init /\ [][Next]_vars

----------------------------------------------------------------------------
\* A server process with several connections: websockets.serve starts one
\* coroutine of the handler for each connection it accepts.  The peers
\* connect when the server starts, and connections are numbered in the
\* order they are accepted; the units of work of all of them together are
\* bounded, and the clock runs for one second.

\* --image absent, or a directory whose files can all be read
SharedPaths ==
    {NoPath, [kind |-> "dir", files |-> [i \in 1..MaxFiles |-> TRUE]]}

InitConc ==
    /\ script \in ServerScripts
    /\ fps \in FpsValues \cap Nat
    /\ payloadLen \in (IF script = "sender" THEN {MaxLen} ELSE {0})
    /\ duration = 0
    /\ tps = TicksPerSecond
    /\ image_path \in (IF script = "server" THEN SharedPaths ELSE {NoPath})
    /\ images = LoadImages(image_path).images
    /\ mode = LoadImages(image_path).mode
    /\ now = Epoch
    /\ sess = [c \in Conns |-> NoSession]

Accepted(c) ==
    /\ now = Epoch
    /\ IF c = 1 THEN TRUE ELSE sess[c - 1].pc # "idle"

RECURSIVE Worked(_)
Worked(n) == IF n = 0 THEN 0 ELSE sess[n].h_events + Worked(n - 1)

MayWorkConc == Worked(NumConns) < MaxEvents

handle_client_accept(c) == Accepted(c) /\ handle_client_connect(c)

handle_client_sent(c) == MayWorkConc /\ handle_client_send(c)

image_server_accept(c) == Accepted(c) /\ image_server_connect(c)

image_server_sent(c) == MayWorkConc /\ image_server_send(c)

ServerStep(c) ==
    \/ handle_client_accept(c)
    \/ handle_client_sent(c)
    \/ handle_client_send_fail(c)
    \/ handle_client_report(c)
    \/ handle_client_pace(c)
    \/ image_server_accept(c)
    \/ image_server_sent(c)
    \/ image_server_send_fail(c)
    \/ Wake(c)
    \/ Resume(c)

TickConc == now < Epoch + tps /\ Tick

NextConc == TickConc \/ \E c \in Conns : ServerStep(c)

SpecConc == InitConc /\ [][NextConc]_vars

----------------------------------------------------------------------------
\* What the event loop guarantees: the clock goes on, and a coroutine that
\* is ready to run (between two awaits, or after its sleep has ended or it
\* has yielded) does run.  Nothing makes a peer connect, send a message,
\* take one, or close.

Scheduled(c) ==
    \/ handle_client_report(c)
    \/ handle_client_pace(c)
    \/ benchmark_receiver_report(c)
    \/ test_receive_rate_report(c)
    \/ test_receive_rate_final(c)
    \/ Wake(c)
    \/ Resume(c)

SpecLive == Spec /\ WF_vars(Tick) /\ WF_vars(Scheduled(1))

----------------------------------------------------------------------------
\* The end-to-end scenario of the spec's section 8 (7): the benchmark sender
\* at 100 messages per second, a payload of 1024 bytes, one client that
\* connects at once and takes every message in negligible time, simulated
\* for 1.0 second from the connection.  The clock has 100 ticks a second.

InitE2E ==
    /\ script = "sender"
    /\ fps = 100
    /\ payloadLen = 1024
    /\ duration = 0
    /\ tps = 100
    /\ image_path = NoPath
    /\ images = << >>
    /\ mode = "dynamic"
    /\ now = Epoch
    /\ sess = [c \in Conns |-> NoSession]

\* simulated time passes only while the sender sleeps, and for one second
TickE2E ==
    /\ sess[1].pc = "sleeping"
    /\ now < sess[1].wake_at
    /\ now < sess[1].start_time + tps
    /\ now' = now + 1
    /\ UNCHANGED <<Globals, sess>>

NextE2E ==
    \/ TickE2E
    \/ handle_client_connect(1)
    \/ handle_client_send(1)
    \/ handle_client_report(1)
    \/ handle_client_pace(1)
    \/ Wake(1)

SpecE2E == InitE2E /\ [][NextE2E]_vars

----------------------------------------------------------------------------
\* Properties

Last(q) == q[Len(q)]

\* the step of connection c prints a periodic report
Emits(c) == Len(sess'[c].printed) = Len(sess[c].printed) + 1

\* the step of connection c is its check of the report interval
ReportStep(c) == sess[c].pc = "report" /\ sess'[c] # sess[c]

\* the counters and the window start after a report: reset
WindowReset(c) ==
    /\ sess'[c].messages = 0
    /\ sess'[c].bytes = 0
    /\ sess'[c].last_report_time = Last(sess'[c].printed).t

\* a second check at the same current_time, with no record in between, is
\* not due
NotDueAgain(c) ==
    /\ sess'[c].current_time = sess[c].current_time
    /\ sess'[c].current_time - sess'[c].last_report_time < ReportInterval

\* C1 as the spec states it: in every script that prints a periodic report,
\* the step that prints one sets eventCount and byteCount to 0 and
\* windowStart to the report's time, and a second check right away is not due.
C1_Original ==
    [][\A c \in Conns : Emits(c) => WindowReset(c) /\ NotDueAgain(c)]_vars

\* C1 amended: the sender and the receiver reset both counters and the
\* window start in the step that prints a report; the test client resets
\* only the window start (last_report_time) and leaves frame_count and
\* total_bytes as they are.  In all three a second check right away is not
\* due.
C1_Reset ==
    [][\A c \in Conns : Emits(c) =>
          /\ NotDueAgain(c)
          /\ sess'[c].last_report_time = Last(sess'[c].printed).t
          /\ script \in {"sender", "receiver"} => WindowReset(c)
          /\ script = "client" =>
                /\ sess'[c].messages = sess[c].messages
                /\ sess'[c].bytes = sess[c].bytes
                /\ sess'[c].messages > 0]_vars

C1_Witness ==
    \E c \in Conns :
        /\ script = "receiver"
        /\ Len(sess[c].printed) = 1
        /\ sess[c].printed[1].h_win_by > 0
        /\ sess[c].messages = 0
        /\ sess[c].bytes = 0
        /\ sess[c].last_report_time = sess[c].printed[1].t

\* a report p gives the average of ev events and by bytes over the time
\* from `from` to the report
AverageOf(p, ev, by, from) ==
    /\ p.t > from
    /\ RatEq(p.msg_rate, Quot(ev * tps, p.t - from))
    /\ RatEq(Quot(p.mbps.num * 1000000, p.mbps.den),
             Quot(8 * by * tps, p.t - from))

\* the average over the window that ended with the report
WindowAverage(p) == AverageOf(p, p.h_win_ev, p.h_win_by, p.h_win_start)

\* the average over the session up to the report
SessionAverage(p) == AverageOf(p, p.h_events, p.h_bytes, p.h_start)

\* C2 as the spec states it: every report gives events/s and bits/s as the
\* exact averages over the window since the previous report.
C2_Original ==
    \A c \in Conns : \A i \in DOMAIN sess[c].printed :
        WindowAverage(sess[c].printed[i])

\* C2 amended: the reports of the sender and of the receiver give the exact
\* averages over the window since the previous report; the reports of the
\* test client give the averages over the whole session (all frames and
\* bytes since start_time, divided by current_time - start_time).
C2_Average ==
    \A c \in Conns : \A i \in DOMAIN sess[c].printed :
        /\ script \in {"sender", "receiver"} => WindowAverage(sess[c].printed[i])
        /\ script = "client" => SessionAverage(sess[c].printed[i])

\* a second report of the sender whose window holds one of three sends
C2_Witness ==
    \E c \in Conns :
        /\ script = "sender"
        /\ payloadLen > 0
        /\ Len(sess[c].printed) = 2
        /\ sess[c].printed[2].h_win_ev = 1
        /\ sess[c].printed[2].h_events = 3

\* C3: the check of the interval prints a report exactly when
\* current_time - last_report_time >= the report interval; when it is not
\* due the check leaves the counters, the window start and the output as
\* they are; no other step prints a report; and two consecutive reports of
\* a session (and the first one and the start) are at least the report
\* interval apart.
C3_Interval ==
    /\ [][\A c \in Conns :
            /\ Emits(c) => ReportStep(c)
            /\ sess'[c].printed # sess[c].printed => Emits(c)
            /\ ReportStep(c) =>
                  IF sess[c].current_time - sess[c].last_report_time >= ReportInterval
                  THEN Emits(c)
                  ELSE /\ sess'[c].printed = sess[c].printed
                       /\ sess'[c].messages = sess[c].messages
                       /\ sess'[c].bytes = sess[c].bytes
                       /\ sess'[c].last_report_time = sess[c].last_report_time]_vars
    /\ [](\A c \in Conns : \A i \in DOMAIN sess[c].printed :
            sess[c].printed[i].t -
               (IF i = 1 THEN sess[c].start_time ELSE sess[c].printed[i - 1].t)
            >= ReportInterval)

\* two reports exactly one interval apart, and a check that was not due
C3_Witness ==
    \E c \in Conns :
        /\ Len(sess[c].printed) = 2
        /\ sess[c].printed[2].t - sess[c].printed[1].t = ReportInterval
        /\ sess[c].messages = 1
        /\ sess[c].pc \in {"pace", "receiving"}

\* C4 as the spec states it: the byte total of a report is the sum of the
\* byte lengths of all records since the session started, and it never
\* decreases from one report to the next.
C4_Original ==
    \A c \in Conns : \A i \in DOMAIN sess[c].printed :
        sess[c].printed[i].has_total =>
            /\ sess[c].printed[i].total = sess[c].printed[i].h_bytes
            /\ i > 1 => sess[c].printed[i].total >= sess[c].printed[i - 1].total

\* C5 as the spec states it: no rate computation of a report or of the
\* final statistics divides by zero.
C5_Original == \A c \in Conns : sess[c].fault # "rate_div0"

Max(a, b) == IF a >= b THEN a ELSE b

\* the step of connection c is the pacing of its iteration
PaceStep(c) == sess[c].pc = "pace" /\ sess'[c] # sess[c]

\* C6: in the benchmark sender with fps > 0 the pacing of an iteration
\* sleeps max(0, 1/fps - (now - loop_start)), where loop_start is the time
\* at which that iteration began: the residual when it is positive, and
\* otherwise no sleep at all, the next iteration beginning at once.
C6_Pacing ==
    [][\A c \in Conns : script = "sender" /\ fps > 0 =>
          /\ sess'[c].h_iters # sess[c].h_iters =>
                /\ sess'[c].h_iters = sess[c].h_iters + 1
                /\ sess'[c].loop_start = now
          /\ PaceStep(c) =>
                LET residual == (tps \div fps) - (now - sess[c].loop_start)
                IN  /\ sess'[c].h_slept = Max(0, residual)
                    /\ sess'[c].h_yields = sess[c].h_yields
                    /\ IF residual > 0
                       THEN /\ sess'[c].pc = "sleeping"
                            /\ sess'[c].wake_at = now + residual
                            /\ sess'[c].h_iters = sess[c].h_iters
                       ELSE /\ sess'[c].pc = "sending"
                            /\ sess'[c].h_iters = sess[c].h_iters + 1]_vars

\* the sender sleeps the residual of fast work in its second iteration,
\* after a first iteration that overran the period and did not sleep
C6_Witness ==
    \E c \in Conns :
        /\ script = "sender"
        /\ fps > 0
        /\ sess[c].pc = "sleeping"
        /\ sess[c].h_iters = 2
        /\ sess[c].loop_start - sess[c].prev_start > tps \div fps
        /\ sess[c].h_slept = 1
        /\ sess[c].h_busy = 1

\* C7 as the spec states it: in every sender script with fps > 0, when the
\* work of an iteration took less than 1/fps, the next iteration begins
\* 1/fps after that iteration began.
C7_Original ==
    \A c \in Conns :
        ( /\ script \in ServerScripts
          /\ fps > 0
          /\ sess[c].pc = "sending"
          /\ sess[c].h_iters >= 2
          /\ sess[c].h_busy < tps \div fps )
        => sess[c].loop_start - sess[c].prev_start = tps \div fps

\* C8 as the spec states it: with fps = 0 a sender loop runs until a send
\* fails, does its unit of work in every iteration, never sleeps for a
\* positive time and yields once per iteration.
C8_Original ==
    \A c \in Conns :
        (script \in ServerScripts /\ fps = 0 /\ sess[c].pc # "idle") =>
            /\ sess[c].fault = "none"
            /\ sess[c].pc = "stopped" => sess[c].closed
            /\ sess[c].pc # "sleeping"
            /\ sess[c].h_slept = 0
            /\ sess[c].h_events =
                  IF sess[c].pc \in {"report", "pace", "yield"}
                  THEN sess[c].h_iters ELSE sess[c].h_iters - 1
            /\ sess[c].h_yields =
                  IF sess[c].pc = "yield" THEN sess[c].h_iters ELSE sess[c].h_iters - 1

\* C9 as the spec states it: with fps < 0 no unit of work is ever executed.
C9_Original ==
    \A c \in Conns :
        (script \in ServerScripts /\ fps < 0) => sess[c].h_events = 0

\* C10: once a send or a receive has signalled closure or failure the loop
\* has been left, and after the loop no unit of work is executed: nothing
\* is sent, received, recorded or reported, no sleep is begun, and the loop
\* is not entered again.
C10_Terminal ==
    /\ [](\A c \in Conns : sess[c].closed => sess[c].pc \in {"final", "stopped"})
    /\ [][\A c \in Conns : sess[c].pc \in {"final", "stopped"} =>
            /\ sess'[c].pc \in {"final", "stopped"}
            /\ sess'[c].pc = "final" => sess[c].pc = "final"
            /\ sess'[c].h_events = sess[c].h_events
            /\ sess'[c].h_bytes = sess[c].h_bytes
            /\ sess'[c].messages = sess[c].messages
            /\ sess'[c].bytes = sess[c].bytes
            /\ sess'[c].frame_num = sess[c].frame_num
            /\ sess'[c].printed = sess[c].printed
            /\ sess'[c].h_iters = sess[c].h_iters
            /\ sess'[c].h_yields = sess[c].h_yields
            /\ sess'[c].wake_at = sess[c].wake_at]_vars

\* a session that did work, was closed, and stays stopped while time passes
C10_Witness ==
    \E c \in Conns :
        /\ sess[c].closed
        /\ sess[c].pc = "stopped"
        /\ sess[c].h_events > 0
        /\ now > sess[c].current_time
        /\ now > sess[c].loop_start

\* C11 as the spec states it: once the test client's receive loop has been
\* left, for whatever reason, and the client has finished, the final
\* statistics have been printed if and only if at least one message was
\* recorded.
C11_Original ==
    \A c \in Conns :
        (script = "client" /\ sess[c].pc = "stopped") =>
            (sess[c].summary # << >> <=> sess[c].h_events > 0)

\* C12: the window accumulated when a connection closes is discarded: the
\* step in which a send or a receive signals closure or failure prints no
\* report, and no report is printed after the loop has been left, whatever
\* the counters hold.
C12_Discarded ==
    [][\A c \in Conns :
          (sess'[c].closed \/ sess[c].pc \in {"final", "stopped"})
              => sess'[c].printed = sess[c].printed]_vars

\* a closed session of the sender or receiver whose last window held
\* records and bytes that no report shows
C12_Witness ==
    \E c \in Conns :
        /\ script \in {"sender", "receiver"}
        /\ sess[c].closed
        /\ sess[c].pc = "stopped"
        /\ sess[c].messages > 1
        /\ sess[c].bytes > 0
        /\ Len(sess[c].printed) = 1
        /\ now - sess[c].last_report_time > ReportInterval

\* the simulated second is over: the clock stands at its end and the
\* sender sleeps until a later time
RunOver(c) ==
    /\ sess[c].pc = "sleeping"
    /\ now = sess[c].start_time + tps
    /\ sess[c].wake_at > now

\* the bits per second of a rate in megabits per second
BitsRate(m) ==
    IF m.den % Mega = 0
    THEN Quot(m.num, m.den \div Mega)
    ELSE Quot(m.num * Mega, m.den)

\* report p gives ev events per second and bits bits per second
Shows(p, ev, bits) ==
    /\ RatEq(p.msg_rate, Quot(ev, 1))
    /\ RatEq(BitsRate(p.mbps), Quot(bits, 1))

\* C14 as the spec states it: the scenario ends with exactly one report,
\* which shows 100 events/s and 819200 bits/s.
C14_Original ==
    /\ Len(sess[1].printed) <= 1
    /\ RunOver(1) =>
          /\ Len(sess[1].printed) = 1
          /\ Shows(sess[1].printed[1], 100, 819200)

\* C14 amended: the scenario prints exactly one report, at the send that
\* ends the simulated second; that send is the 101st (the sends at both
\* ends of the second are counted), so the report shows 101 events/s and
\* 827392 bits/s (101 * 1024 * 8).
C14_OneSnapshot ==
    /\ Len(sess[1].printed) <= 1
    /\ RunOver(1) => Len(sess[1].printed) = 1
    /\ sess[1].printed # << >> =>
          /\ sess[1].printed[1].t = sess[1].start_time + tps
          /\ sess[1].printed[1].h_events = 101
          /\ sess[1].printed[1].h_bytes = 101 * 1024
          /\ Shows(sess[1].printed[1], 101, 827392)

C14_Witness == RunOver(1) /\ Len(sess[1].printed) = 1 /\ sess[1].h_events = 101

\* C17: in directory mode the payload of the send attempt made after k
\* successful sends is images[k mod n] (sequences count from 1); the frame
\* number is the number of successful sends, it advances by 1 with a
\* successful send and stays at a failed one; the collection never changes.
C17_Cycle ==
    /\ [](\A c \in Conns :
            (script = "server" /\ mode = "directory"
                 /\ sess[c].pc = "sending") =>
                /\ sess[c].frame_num = sess[c].h_events
                /\ sess[c].image_data =
                       images[(sess[c].h_events % Len(images)) + 1])
    /\ [][/\ images' = images
          /\ \A c \in Conns :
                (script = "server" /\ mode = "directory") =>
                    /\ sess'[c].h_events = sess[c].h_events + 1
                           => sess'[c].frame_num = sess[c].frame_num + 1
                    /\ sess'[c].h_events = sess[c].h_events
                           => sess'[c].frame_num = sess[c].frame_num]_vars

\* two images, two sends done: the third attempt sends the first image again
C17_Witness ==
    \E c \in Conns :
        /\ script = "server"
        /\ mode = "directory"
        /\ Len(images) = 2
        /\ sess[c].pc = "sending"
        /\ sess[c].h_events = 2
        /\ sess[c].image_data = images[1]

\* C18: load_images returns "static" only with exactly one image,
\* "directory" only with at least one image, and "dynamic" whenever no
\* image was loaded; image_server never indexes an empty list and never
\* takes a modulo by zero.
C18_Consistent ==
    /\ mode \in {"static", "directory", "dynamic"}
    /\ mode = "static" => Len(images) = 1
    /\ mode = "directory" => Len(images) >= 1
    /\ Len(images) = 0 => mode = "dynamic"
    /\ \A c \in Conns : sess[c].fault \notin {"index_error", "mod_zero"}

\* a directory of image files none of which can be read, and a frame sent
C18_Witness ==
    \E c \in Conns :
        /\ script = "server"
        /\ image_path.kind = "dir"
        /\ Len(image_path.files) > 0
        /\ \A i \in 1..Len(image_path.files) : ~image_path.files[i]
        /\ mode = "dynamic"
        /\ sess[c].h_events > 0
        /\ sess[c].image_data.kind = "generated"

\* the measuring loop of connection c is running
InLoop(c) == sess[c].pc \notin {"idle", "stopped"}

\* C15 as the spec states it: in the sender and the receiver, whenever the
\* report interval has elapsed since the window began, a snapshot is
\* eventually emitted (unless the connection ends first), and a snapshot
\* of a window without events shows zero rates.
C15_Original ==
    /\ \A c \in Conns : \A n \in 0..MaxEvents :
          (/\ script \in {"sender", "receiver"}
           /\ InLoop(c)
           /\ Len(sess[c].printed) = n
           /\ now - sess[c].last_report_time >= ReportInterval)
              ~> (Len(sess[c].printed) > n \/ ~InLoop(c))
    /\ [](\A c \in Conns : \A i \in 1..Len(sess[c].printed) :
             (script \in {"sender", "receiver"}
                  /\ sess[c].printed[i].h_win_ev = 0) =>
                 /\ RatEq(sess[c].printed[i].msg_rate, Zero)
                 /\ RatEq(sess[c].printed[i].mbps, Zero))

\* C16 as stated: a connected client started with a duration d > 0
\* eventually stops once d has elapsed since it connected, and counts no
\* message after the first one processed at or after the end time.
C16_Original ==
    /\ \A c \in Conns :
          (/\ script = "client"
           /\ duration > 0
           /\ InLoop(c)
           /\ now >= sess[c].end_time)
              ~> (sess[c].pc = "stopped")
    /\ [][\A c \in Conns :
             (/\ script = "client"
              /\ duration > 0
              /\ sess[c].messages > 0
              /\ sess[c].current_time >= sess[c].end_time)
                 => sess'[c].messages = sess[c].messages]_vars

\* C13: a step of one connection's handler leaves every other connection's
\* locals (counters, window start, frame number, position) as they were,
\* under every interleaving; the payload the handlers share is never
\* changed.
C13_Isolated ==
    [][/\ \A c \in Conns : \A d \in Conns \ {c} :
             sess'[c] # sess[c] => sess'[d] = sess[d]
       /\ payloadLen' = payloadLen
       /\ images' = images
       /\ mode' = mode]_vars

\* one connection has reported and reset its window while another, still
\* running, holds the messages it has counted
C13_Witness ==
    \E c \in Conns : \E d \in Conns \ {c} :
        /\ InLoop(c)
        /\ InLoop(d)
        /\ sess[c].messages > 0
        /\ sess[d].messages = 0
        /\ Len(sess[d].printed) > 0
        /\ sess[d].h_events > 0

====
